---- MODULE Spec2Model ----
(***************************************************************************)
(* The governed-query pipeline of sql/query.py: the two entry points       *)
(* `query` and `query_download`, the kill-job scheduler they arm and       *)
(* disarm, and the QueryLog table they append to.  Each request is a       *)
(* process whose position is req[r].pc; the engine adapter, the privilege  *)
(* evaluator and the configuration are collaborators whose answers are     *)
(* drawn from small sets at the step that calls them.                      *)
(***************************************************************************)
EXTENDS Integers, Sequences, FiniteSets, TLC

(* ---- bounds of the model ---- *)
MaxLimit == 2
MaxRows == 3
MaxTime == 1
MaxLogs == 2

(* ---- Python None, kept type-uniform for TLC ---- *)
NoneInt == 0 - 1
NoneStr == "None"
NoneSql == << >>

min(a, b) == IF a <= b THEN a ELSE b

(* ---- SQL texts: sequences of characters ---- *)
SqlExplain == <<"e", "x", "p", "l", "a", "i", "n", " ", "q">>
SqlExplainMixed == <<"E", "x", "P", "L", "A", "I", "N", " ", "q">>
SqlExplainPadded == <<" ", "e", "x", "p", "l", "a", "i", "n", " ", "q">>
SqlSelect == <<"s", "e", "l", "e", "c", "t", " ", "q">>
SqlTexts == {SqlExplain, SqlExplainMixed, SqlExplainPadded, SqlSelect}

UpperToLower ==
    [c \in {"E", "X", "P", "L", "A", "I", "N"} |->
        CASE c = "E" -> "e" [] c = "X" -> "x" [] c = "P" -> "p" [] c = "L" -> "l"
          [] c = "A" -> "a" [] c = "I" -> "i" [] c = "N" -> "n"]

\* str.lower()
lower(s) == [i \in 1..Len(s) |-> IF s[i] \in DOMAIN UpperToLower THEN UpperToLower[s[i]] ELSE s[i]]

\* re.match(r"^explain", s): s begins with the seven characters e x p l a i n
re_match_explain(s) ==
    /\ Len(s) >= 7
    /\ SubSeq(s, 1, 7) = <<"e", "x", "p", "l", "a", "i", "n">>

\* re.match(r"^explain", sql_content.lower())
IsExplain(sql) == re_match_explain(lower(sql))

\* str.strip() as the engine's query_check applies it to the statement
strip(s) == IF Len(s) > 0 /\ s[1] = " " THEN SubSeq(s, 2, Len(s)) ELSE s

(* ---- the principals ---- *)
Users == {"alice", "bob"}

\* user = request.user
UserOf(r) == IF r = 1 THEN "alice" ELSE "bob"

\* user.display
UserDisplay(username) == IF username = "alice" THEN <<"A", "l", "i">> ELSE <<"b", "o">>

(* ---- the request's inputs ---- *)
VisibleInstances == {"mysql01"}
InstanceNames == {NoneStr, "mysql01", "hidden"}
DbNames == {NoneStr, "sales"}
\* limit_num of the request: NoneInt stands for "the field is absent"
LimitInputs == {NoneInt} \cup (0..MaxLimit)

\* faulty variant: the lookup is made among all instances, not the principal's
InstanceFoundAmongAll(name) == name # NoneStr

\* user_instances(request.user).get(instance_name=...) finds an instance
InstanceFound(name) == name \in VisibleInstances

\* int(request.POST.get("limit_num", 0))
ParseLimit(raw) == IF raw = NoneInt THEN 0 ELSE raw

\* None in [sql_content, db_name, instance_name, limit_num]
ParamMissing(q) ==
    \/ q.sql_content = NoneSql
    \/ q.db_name = NoneStr
    \/ q.instance_name = NoneStr
    \/ q.limit_num = NoneInt

(* ---- SQL rewriting ---- *)
LimitText(n) == IF n = NoneInt THEN "None" ELSE ToString(n)

HasLimit(sql) == Len(sql) >= 2 /\ sql[Len(sql) - 1] = "limit"

SetLimit(sql, n) ==
    IF HasLimit(sql)
    THEN SubSeq(sql, 1, Len(sql) - 1) \o <<LimitText(n)>>
    ELSE sql \o <<"limit", LimitText(n)>>

\* query_engine.filter_sql(sql=sql_content, limit_num=limit_num)
filter_sql(sql, limit_num) == IF limit_num = 0 THEN sql ELSE SetLimit(sql, limit_num)

\* replace_limit(sql_content, limit_num)
replace_limit(sql, limit_num) == SetLimit(sql, limit_num)

(* ---- the privilege evaluator ---- *)
Ceilings == {1, MaxLimit + 1}

\* query_priv_check(...)["data"]["limit_num"]
PrivLimit(requested, ceiling) == IF requested = 0 THEN ceiling ELSE min(requested, ceiling)

\* faulty variant: every statement is treated as an EXPLAIN
ExplainLimitAlways(sql, limit_num) == 0

\* limit_num = 0 if re.match(r"^explain", sql_content.lower()) else limit_num
ExplainLimit(sql, limit_num) == IF IsExplain(sql) THEN 0 ELSE limit_num

(* ---- configuration values a request can read ---- *)
DownloadLimits == {NoneInt, MaxLimit}

\* faulty variant: the privilege-derived limit is kept on the download path
DownloadLimitKeepsPrivLimit(limit_num, download_limit) == limit_num

\* limit_num = config.get("download_limit")
DownloadLimit(limit_num, download_limit) == download_limit

NoConfig ==
    [disable_star |-> FALSE, data_masking |-> FALSE, query_check |-> FALSE,
     download_limit |-> NoneInt]

(* ---- dictionaries ---- *)
EmptyDict == [k \in {} |-> NoneInt]

DictSet(d, key, val) == [k \in (DOMAIN d) \cup {key} |-> IF k = key THEN val ELSE d[k]]

\* QueryResult of the engine before anything is executed
NoResult ==
    [column_list |-> << >>, column_type |-> << >>, rows |-> << >>, affected_rows |-> 0,
     error |-> NoneStr, is_masked |-> FALSE, mask_rule_hit |-> FALSE]

\* result = {"status": 0, "msg": "ok", "data": {}}
NewResult == [status |-> 0, msg |-> "ok", data |-> EmptyDict]

NoCheck == [outcome |-> "none", bad_query |-> FALSE, has_star |-> FALSE, filtered_sql |-> NoneSql]

NoPriv ==
    [outcome |-> "none", status |-> 0, ceiling |-> 0, limit_num |-> 0, priv_check |-> FALSE]

Call(op, limit) == [op |-> op, limit |-> limit]

VARIABLES req, schedules, now, query_log, kills, listing

vars == <<req, schedules, now, query_log, kills, listing>>

Reqs == DOMAIN req

InitReq ==
    [pc |-> "idle", kind |-> NoneStr, raw_limit |-> NoneInt,
     instance_name |-> NoneStr, sql_content |-> NoneSql, db_name |-> NoneStr,
     limit_num |-> 0, priv_check |-> FALSE, thread_id |-> NoneInt,
     schedule_name |-> NoneInt, query_result |-> NoResult, result |-> NewResult,
     response |-> NoneStr, calls |-> << >>, check |-> NoCheck, priv |-> NoPriv,
     executed |-> "none", exec_limit |-> NoneInt, masked |-> "none", cfg |-> NoConfig,
     raised |-> "none"]

\* request.user of a listing: has_audit_perm is user.has_perm("sql.audit_user")
Principal(username, is_superuser, has_audit_perm) ==
    [username |-> username, is_superuser |-> is_superuser,
     has_audit_perm |-> has_audit_perm]

\* request.GET of a listing; the date range is left absent
ListingParams(limit, offset, star, query_log_id, search) ==
    [limit |-> limit, offset |-> offset, star |-> star,
     query_log_id |-> query_log_id, search |-> search]

\* the response of the audit-log listing before any listing was asked
NoListing ==
    [user |-> Principal(NoneStr, FALSE, FALSE),
     params |-> ListingParams(0, 0, FALSE, NoneInt, << >>),
     total |-> 0, rows |-> << >>]

Init ==
    /\ req = [r \in {1} |-> InitReq]
    /\ schedules = {}
    /\ now = 0
    /\ query_log = << >>
    /\ kills = << >>
    /\ listing = NoListing

\* return HttpResponse(json.dumps(result), ...) with a status and a message
Reply(q, status, msg) ==
    [q EXCEPT !.result.status = status, !.result.msg = msg, !.pc = "done",
              !.response = "json"]

\* faulty variant: the handler returns without marking the result as failed
FailKeepsStatus(q) == [q EXCEPT !.pc = "done", !.response = "json"]

\* except Exception as e: ... result["status"] = 1 ... return HttpResponse(...)
Fail(q) == Reply(q, 1, "exception")

\* the call `op` raises inside the try block
Raise(q, op) == Fail([q EXCEPT !.raised = op])

Called(q, op, limit) == [q EXCEPT !.calls = Append(@, Call(op, limit))]

(* ---- the entry points ---- *)
\* reading the request's fields
Entry(r, kind) ==
    /\ req[r].pc = "idle"
    /\ \E name \in InstanceNames, sql \in {NoneSql} \cup SqlTexts, db \in DbNames,
          raw \in LimitInputs :
          req' = [req EXCEPT ![r] =
                    [@ EXCEPT !.kind = kind, !.instance_name = name, !.sql_content = sql,
                              !.db_name = db, !.raw_limit = raw,
                              !.limit_num = ParseLimit(raw), !.result = NewResult,
                              !.pc = "resolve"]]
    /\ UNCHANGED <<schedules, now, query_log, kills, listing>>

query(r) == Entry(r, "query")

query_download(r) == Entry(r, "download")

\* instance lookup, then the server-side parameter validation
ResolveInstance(r) ==
    /\ req[r].pc = "resolve"
    /\ LET q == req[r] IN
       req' = [req EXCEPT ![r] =
                 IF ~InstanceFound(q.instance_name) THEN Reply(q, 1, "no_instance")
                 ELSE IF ParamMissing(q) THEN Reply(q, 1, "empty_param")
                 ELSE [q EXCEPT !.pc = "query_check"]]
    /\ UNCHANGED <<schedules, now, query_log, kills, listing>>

\* faulty variant: the wildcard rejection is dropped
CheckRejectsBadQueryOnly(info, disable_star) == info.bad_query

\* bad_query, or has_star while config.get("disable_star") is True
CheckRejects(info, disable_star) == info.bad_query \/ (info.has_star /\ disable_star)

\* SysConfig(), get_engine, query_engine.query_check and its two rejections
EngineQueryCheckThen(r, next_pc) ==
    /\ req[r].pc = "query_check"
    /\ LET q == Called(Called(req[r], "get_engine", NoneInt), "query_check", NoneInt) IN
       \/ req' = [req EXCEPT ![r] = Raise([q EXCEPT !.check.outcome = "raise"], "query_check")]
       \/ \E bad \in BOOLEAN, star \in BOOLEAN,
             filtered \in {q.sql_content, strip(q.sql_content)} :
            \E ds \in (IF star /\ ~bad THEN BOOLEAN ELSE {FALSE}) :
              LET info == [outcome |-> "ok", bad_query |-> bad, has_star |-> star,
                           filtered_sql |-> filtered]
                  q1 == [q EXCEPT !.check = info, !.cfg.disable_star = ds]
              IN req' = [req EXCEPT ![r] =
                           IF CheckRejects(info, ds) THEN Reply(q1, 1, "check_msg")
                           ELSE [q1 EXCEPT !.sql_content = info.filtered_sql,
                                           !.pc = next_pc]]
    /\ UNCHANGED <<schedules, now, query_log, kills, listing>>

\* faulty variant: the statement is rewritten without the privilege evaluation
EngineQueryCheckSkipsPriv(r) == EngineQueryCheckThen(r, "filter_sql")

\* after the check comes the privilege evaluation
EngineQueryCheck(r) == EngineQueryCheckThen(r, "priv_check")

PrivStatuses == {0, 1, 2}

\* query_priv_check, its rejection, and the EXPLAIN rule
PrivCheck(r) ==
    /\ req[r].pc = "priv_check"
    /\ LET q == Called(req[r], "query_priv_check", req[r].limit_num) IN
       \E status \in PrivStatuses :
         \E ceiling \in (IF status = 0 THEN Ceilings ELSE {0}),
            flag \in (IF status = 0 THEN BOOLEAN ELSE {FALSE}) :
           LET info == [outcome |-> "ok", status |-> status, ceiling |-> ceiling,
                        limit_num |-> IF status = 0 THEN PrivLimit(q.limit_num, ceiling)
                                      ELSE 0,
                        priv_check |-> flag]
               q1 == [q EXCEPT !.priv = info]
           IN req' = [req EXCEPT ![r] =
                        IF status = 0
                        THEN [q1 EXCEPT !.limit_num =
                                           ExplainLimit(q.sql_content, info.limit_num),
                                        !.priv_check = flag, !.pc = "filter_sql"]
                        ELSE Reply(q1, status, "priv_msg")]
    /\ UNCHANGED <<schedules, now, query_log, kills, listing>>

\* query_engine.filter_sql; on the download path also download_limit and replace_limit
FilterSql(r) ==
    /\ req[r].pc = "filter_sql"
    /\ LET q == Called(req[r], "filter_sql", req[r].limit_num)
           sql1 == filter_sql(q.sql_content, q.limit_num)
       IN
       \/ req' = [req EXCEPT ![r] = Raise(q, "filter_sql")]
       \/ /\ q.kind = "query"
          /\ req' = [req EXCEPT ![r] =
                       [q EXCEPT !.sql_content = sql1, !.pc = "get_connection"]]
       \/ /\ q.kind = "download"
          /\ \E dl \in DownloadLimits :
               LET limit1 == DownloadLimit(q.limit_num, dl) IN
               req' = [req EXCEPT ![r] =
                         [Called(q, "replace_limit", limit1) EXCEPT
                            !.cfg.download_limit = dl, !.limit_num = limit1,
                            !.sql_content = replace_limit(sql1, limit1),
                            !.pc = "get_connection"]]
    /\ UNCHANGED <<schedules, now, query_log, kills, listing>>

\* query_engine.get_connection and query_engine.thread_id
GetConnection(r) ==
    /\ req[r].pc = "get_connection"
    /\ LET q == Called(req[r], "get_connection", NoneInt) IN
       \/ req' = [req EXCEPT ![r] = Raise(q, "get_connection")]
       \/ \E tid \in {NoneInt, r} :
            req' = [req EXCEPT ![r] = [q EXCEPT !.thread_id = tid, !.pc = "add_schedule"]]
    /\ UNCHANGED <<schedules, now, query_log, kills, listing>>

\* faulty variant: the guard does not look at the session id
HasThreadIdAlways(thread_id) == TRUE

\* if thread_id:
HasThreadId(thread_id) == thread_id # NoneInt

(* ---- the scheduler of kill jobs ---- *)
Job(name, run_date, instance, thread_id) ==
    [name |-> name, run_date |-> run_date, instance |-> instance, thread_id |-> thread_id]

add_kill_conn_schedule(jobs, name, run_date, instance, thread_id) ==
    jobs \cup {Job(name, run_date, instance, thread_id)}

del_schedule(jobs, name) == {j \in jobs : j.name # name}

\* the readings of time.time() that requests took within clock unit t; the readings
\* of one unit are numbered t * n .. t * n + n - 1, n the number of requests
ReadingsAt(t) ==
    {req[x].schedule_name : x \in Reqs}
        \cap ((t * Cardinality(Reqs)) .. (t * Cardinality(Reqs) + Cardinality(Reqs) - 1))

\* time.time(): a reading is never smaller than an earlier one; two calls made at the
\* same instant read the same value
time_time ==
    IF ReadingsAt(now) = {}
    THEN {now * Cardinality(Reqs)}
    ELSE LET last == CHOOSE m \in ReadingsAt(now) : \A k \in ReadingsAt(now) : k <= m
         IN {last, last + 1}

\* if thread_id: schedule_name = f"query-{time.time()}"; add_kill_conn_schedule(...)
\* the clock counts in units of the configured max_execution_time
AddKillConnSchedule(r) ==
    /\ req[r].pc = "add_schedule"
    /\ LET q == req[r] IN
       IF HasThreadId(q.thread_id)
       THEN \E schedule_name \in time_time :
            /\ req' = [req EXCEPT ![r] =
                         [Called(q, "add_kill_conn_schedule", NoneInt) EXCEPT
                            !.schedule_name = schedule_name, !.pc = "query"]]
            /\ schedules' = add_kill_conn_schedule(schedules, schedule_name, now + 1,
                                                   q.instance_name, q.thread_id)
       ELSE /\ req' = [req EXCEPT ![r] = [q EXCEPT !.pc = "query"]]
            /\ UNCHANGED schedules
    /\ UNCHANGED <<now, query_log, kills, listing>>

RawRows(n) == [i \in 1..n |-> "raw"]

\* rows the engine returns for an affected-row count under a limit (0 = unlimited)
RowsReturned(limit_num, affected) ==
    IF limit_num = 0 THEN affected ELSE min(limit_num, affected)

\* query_engine.query(db_name, sql_content, limit_num, ...)
EngineQuery(r) ==
    /\ req[r].pc = "query"
    /\ LET q == [Called(req[r], "query", req[r].limit_num) EXCEPT
                   !.exec_limit = req[r].limit_num] IN
       \/ req' = [req EXCEPT ![r] = Raise([q EXCEPT !.executed = "raise"], "query")]
       \/ req' = [req EXCEPT ![r] =
                    [q EXCEPT !.executed = "error",
                              !.query_result = [NoResult EXCEPT !.error = "exec_err"],
                              !.pc = "del_schedule"]]
       \/ \E affected \in 0..MaxRows :
            \* a statement rewritten to "limit None" is not accepted by any backend
            /\ q.limit_num # NoneInt
            /\ req' = [req EXCEPT ![r] =
                      [q EXCEPT !.executed = "ok",
                                !.query_result =
                                   [NoResult EXCEPT
                                      !.column_list = <<"c">>, !.column_type = <<"t">>,
                                      !.rows = RawRows(RowsReturned(q.limit_num, affected)),
                                      !.affected_rows = affected],
                                !.pc = "del_schedule"]]
    /\ UNCHANGED <<schedules, now, query_log, kills, listing>>

\* if thread_id: del_schedule(schedule_name); tolerant: deleting a schedule that is no
\* longer there is not an error
DelScheduleWhen(r, tolerant) ==
    /\ req[r].pc = "del_schedule"
    /\ LET q == req[r] IN
       IF HasThreadId(q.thread_id)
       THEN /\ req' = [req EXCEPT ![r] =
                         IF tolerant \/ (\E j \in schedules : j.name = q.schedule_name)
                         THEN [Called(q, "del_schedule", NoneInt) EXCEPT !.pc = "masking"]
                         ELSE Raise(Called(q, "del_schedule", NoneInt), "del_schedule")]
            /\ schedules' = del_schedule(schedules, q.schedule_name)
       ELSE /\ req' = [req EXCEPT ![r] = [q EXCEPT !.pc = "masking"]]
            /\ UNCHANGED schedules
    /\ UNCHANGED <<now, query_log, kills, listing>>

\* faulty variant: disarming a job that has already run raises
DelScheduleRaisesWhenGone(r) == DelScheduleWhen(r, FALSE)

DelSchedule(r) == DelScheduleWhen(r, TRUE)

\* the masked copy of a result set
MaskedResult(qr) ==
    [qr EXCEPT !.rows = [i \in 1..Len(qr.rows) |-> "***"], !.is_masked = TRUE,
               !.mask_rule_hit = TRUE]

\* faulty variant: a masking failure fails the request whatever query_check says
MaskingFailedAlwaysStrict(q, strict, msg) ==
    [q EXCEPT !.cfg.query_check = strict, !.result.status = 1, !.result.msg = msg]

\* strict mode: result["status"] = 1 and the masking message; otherwise the error is
\* cleared and result["data"] = query_result.__dict__
MaskingFailed(q, strict, msg) ==
    LET q1 == [q EXCEPT !.cfg.query_check = strict] IN
    IF strict
    THEN [q1 EXCEPT !.result.status = 1, !.result.msg = msg]
    ELSE [q1 EXCEPT !.query_result.error = NoneStr,
                    !.result.data = [q.query_result EXCEPT !.error = NoneStr]]

\* faulty variant: the error of the execution is not looked at before masking
ResultHasErrorIgnored(qr) == FALSE

\* if query_result.error:
ResultHasError(qr) == qr.error # NoneStr

\* if query_result.error ... elif config.get("data_masking") ... else ...
Masking(r) ==
    /\ req[r].pc = "masking"
    /\ LET q == [req[r] EXCEPT !.pc = "save_log"] IN
       IF ResultHasError(q.query_result)
       THEN req' = [req EXCEPT ![r] =
                      [q EXCEPT !.result.status = 1, !.result.msg = q.query_result.error]]
       ELSE \E dm \in BOOLEAN :
              LET q1 == [q EXCEPT !.cfg.data_masking = dm] IN
              IF ~dm
              THEN req' = [req EXCEPT ![r] = [q1 EXCEPT !.result.data = q.query_result]]
              ELSE LET q2 == Called(q1, "query_masking", NoneInt) IN
                   \* masked; in_place: the masking metadata is added to query_result
                   \/ \E in_place \in BOOLEAN :
                        req' = [req EXCEPT ![r] =
                                  [q2 EXCEPT !.masked = "ok",
                                             !.result.data = MaskedResult(q.query_result),
                                             !.query_result =
                                                IF in_place THEN MaskedResult(@) ELSE @]]
                   \* masking_result.error is set
                   \/ \E strict \in BOOLEAN :
                        req' = [req EXCEPT ![r] =
                                  MaskingFailed([q2 EXCEPT !.masked = "error"], strict,
                                                "mask_err")]
                   \* query_masking raises
                   \/ \E strict \in BOOLEAN :
                        req' = [req EXCEPT ![r] =
                                  MaskingFailed([q2 EXCEPT !.masked = "raise"], strict,
                                                "mask_exception")]
    /\ UNCHANGED <<schedules, now, query_log, kills, listing>>

\* faulty variant: a limit of 0 is not treated as "no limit"
effect_row_min_only(error, limit_num, affected_rows) ==
    IF error = NoneStr THEN min(limit_num, affected_rows) ELSE 0

\* the row count stored in the audit record
effect_row(error, limit_num, affected_rows) ==
    IF error = NoneStr
    THEN IF limit_num = 0 THEN affected_rows ELSE min(limit_num, affected_rows)
    ELSE 0

\* faulty variant: the download path logs with the interactive tag
QueryLogAlwaysOnline(r, q, rows_logged) ==
    [id |-> Len(query_log) + 1, request |-> r, username |-> UserOf(r),
     user_display |-> UserDisplay(UserOf(r)), db_name |-> q.db_name,
     instance_name |-> q.instance_name, sqllog |-> q.sql_content,
     effect_row |-> rows_logged, priv_check |-> q.priv_check,
     hit_rule |-> q.query_result.mask_rule_hit, masking |-> q.query_result.is_masked,
     query_type |-> "online_query", favorite |-> FALSE, alias |-> << >>]

\* QueryLog(...); request: the request that wrote the record
QueryLog(r, q, rows_logged) ==
    [id |-> Len(query_log) + 1, request |-> r, username |-> UserOf(r),
     user_display |-> UserDisplay(UserOf(r)), db_name |-> q.db_name,
     instance_name |-> q.instance_name, sqllog |-> q.sql_content,
     effect_row |-> rows_logged, priv_check |-> q.priv_check,
     hit_rule |-> q.query_result.mask_rule_hit, masking |-> q.query_result.is_masked,
     query_type |-> IF q.kind = "query" THEN "online_query" ELSE "download_query",
     favorite |-> FALSE, alias |-> << >>]

\* the logged row count and query_log.save()
SaveQueryLog(r) ==
    /\ req[r].pc = "save_log"
    /\ LET q == req[r]
           n == effect_row(q.query_result.error, q.limit_num, q.query_result.affected_rows)
           q1 == IF q.query_result.error = NoneStr
                 THEN [q EXCEPT !.result.data = DictSet(@, "seconds_behind_master", 0)]
                 ELSE q
       IN
       /\ req' = [req EXCEPT ![r] = [q1 EXCEPT !.limit_num = n, !.pc = "respond"]]
       /\ query_log' = Append(query_log, QueryLog(r, q, n))
    /\ UNCHANGED <<schedules, now, kills, listing>>

DownloadTypes == {"excel", "sql"}

\* keys of result["data"] the export reads
ExportKeys(download_type) ==
    IF download_type = "excel" THEN {"column_list", "rows"}
    ELSE {"column_list", "column_type", "rows"}

\* the response after the pipeline's try block
ResponseOf(q, download_type) ==
    IF q.kind = "query" THEN "json"
    ELSE IF ExportKeys(download_type) \subseteq DOMAIN q.result.data
         THEN download_type
         ELSE "raised"

Respond(r) ==
    /\ req[r].pc = "respond"
    /\ \E download_type \in DownloadTypes :
         req' = [req EXCEPT ![r] =
                   [@ EXCEPT !.response = ResponseOf(req[r], download_type), !.pc = "done"]]
    /\ UNCHANGED <<schedules, now, query_log, kills, listing>>

\* the scheduler runs a due job: kill_query_conn(instance_id, thread_id)
\* req_pc: where the request that owns the session stood when the job ran
Kill(j) ==
    [instance |-> j.instance, thread_id |-> j.thread_id,
     req_pc |-> IF j.thread_id \in Reqs THEN req[j.thread_id].pc ELSE "none"]

\* faulty variant: the job stays scheduled after it has run
kill_query_conn_repeating ==
    /\ Len(kills) < 2
    /\ \E j \in schedules :
         /\ now >= j.run_date
         /\ kills' = Append(kills, Kill(j))
    /\ UNCHANGED <<req, schedules, now, query_log, listing>>

kill_query_conn ==
    /\ \E j \in schedules :
         /\ now >= j.run_date
         /\ schedules' = schedules \ {j}
         /\ kills' = Append(kills, Kill(j))
    /\ UNCHANGED <<req, now, query_log, listing>>

\* time passes; only the arming step and the scheduler read the clock
Tick ==
    /\ now < MaxTime
    /\ \/ schedules # {}
       \/ \E r \in Reqs : req[r].pc = "add_schedule"
    /\ now' = now + 1
    /\ UNCHANGED <<req, schedules, query_log, kills, listing>>

Next ==
    \/ \E r \in Reqs : query(r)
    \/ \E r \in Reqs : query_download(r)
    \/ \E r \in Reqs : ResolveInstance(r)
    \/ \E r \in Reqs : EngineQueryCheck(r)
    \/ \E r \in Reqs : PrivCheck(r)
    \/ \E r \in Reqs : FilterSql(r)
    \/ \E r \in Reqs : GetConnection(r)
    \/ \E r \in Reqs : AddKillConnSchedule(r)
    \/ \E r \in Reqs : EngineQuery(r)
    \/ \E r \in Reqs : DelSchedule(r)
    \/ \E r \in Reqs : Masking(r)
    \/ \E r \in Reqs : SaveQueryLog(r)
    \/ \E r \in Reqs : Respond(r)
    \/ kill_query_conn
    \/ Tick

Spec == Init /\ [][Next]_vars

\* a request of the interactive path that has passed the check, the privilege
\* evaluation and the rewriting, holds a connection and is about to arm its guard
ArmingReq(r) ==
    [InitReq EXCEPT
        !.pc = "add_schedule", !.kind = "query", !.raw_limit = 1,
        !.instance_name = "mysql01", !.db_name = "sales",
        !.check = [NoCheck EXCEPT !.outcome = "ok", !.filtered_sql = SqlSelect],
        !.priv = [NoPriv EXCEPT !.outcome = "ok", !.ceiling = 1,
                                !.limit_num = PrivLimit(1, 1)],
        !.limit_num = PrivLimit(1, 1),
        !.sql_content = filter_sql(SqlSelect, PrivLimit(1, 1)),
        !.thread_id = r,
        !.calls = <<Call("get_engine", NoneInt), Call("query_check", NoneInt),
                    Call("query_priv_check", 1), Call("filter_sql", PrivLimit(1, 1)),
                    Call("get_connection", NoneInt)>>]

\* two requests of two users served concurrently, each on its own connection
InitConc ==
    /\ req = [r \in {1, 2} |-> ArmingReq(r)]
    /\ schedules = {}
    /\ now = 0
    /\ query_log = << >>
    /\ kills = << >>
    /\ listing = NoListing

NextConc ==
    \/ \E r \in Reqs : AddKillConnSchedule(r)
    \/ \E r \in Reqs : EngineQuery(r)
    \/ \E r \in Reqs : DelSchedule(r)
    \/ \E r \in Reqs : Masking(r)
    \/ \E r \in Reqs : SaveQueryLog(r)
    \/ \E r \in Reqs : Respond(r)
    \/ kill_query_conn
    \/ Tick

SpecConc == InitConc /\ [][NextConc]_vars

(* ---- the audit-log listing ---- *)
\* a superuser holds every permission
Principals ==
    {Principal(u, su, au) : u \in Users, su \in BOOLEAN, au \in BOOLEAN}
        \ {Principal(u, TRUE, FALSE) : u \in Users}

SearchTexts == {<< >>, <<"A", "L">>, <<"I", "N">>}

\* int(request.GET.get("limit", 0)), int(request.GET.get("offset", 0))
PageLimits == {0, 1, 2}
PageOffsets == {0, 1}

\* an audit record as the pipeline writes it and the favorite toggle leaves it
StoredLog(id, username, sql, starred) ==
    [id |-> id, request |-> CHOOSE r \in {1, 2} : UserOf(r) = username,
     username |-> username, user_display |-> UserDisplay(username),
     db_name |-> "sales", instance_name |-> "mysql01", sqllog |-> sql,
     effect_row |-> 1, priv_check |-> TRUE, hit_rule |-> FALSE, masking |-> FALSE,
     query_type |-> "online_query", favorite |-> starred,
     alias |-> IF starred THEN <<"p", "i", "n">> ELSE << >>]

StoredLogs ==
    UNION {{[i \in 1..n |-> StoredLog(i, u[i], sql[i], fav[i])] :
                u \in [1..n -> Users],
                sql \in [1..n -> {SqlExplain, filter_sql(SqlSelect, 1)}],
                fav \in [1..n -> BOOLEAN]} : n \in 0..MaxLogs}

\* field__icontains=search: a case-insensitive substring test
icontains(text, search) ==
    \E i \in 1..(Len(text) + 1) :
        /\ i + Len(search) - 1 <= Len(text)
        /\ SubSeq(lower(text), i, i + Len(search) - 1) = lower(search)

\* faulty variant: only superusers see every record
SeesAllRecordsSuperuserOnly(user) == user.is_superuser

\* user.is_superuser or user.has_perm("sql.audit_user")
SeesAllRecords(user) == user.is_superuser \/ user.has_audit_perm

\* QueryLog.objects.filter(**filter_dict): favorite, id and username when present
InFilterDict(log, user, params) ==
    /\ params.star => log.favorite = params.star
    /\ params.query_log_id # NoneInt => log.id = params.query_log_id
    /\ ~SeesAllRecords(user) => log.username = user.username

\* Q(sqllog__icontains) | Q(user_display__icontains) | Q(alias__icontains)
InSearch(log, search) ==
    \/ icontains(log.sqllog, search)
    \/ icontains(log.user_display, search)
    \/ icontains(log.alias, search)

\* sql_log: the stored records that pass both filters, in the order of their ids
Filtered(logs, user, params) ==
    SelectSeq(logs, LAMBDA log : InFilterDict(log, user, params)
                                    /\ InSearch(log, params.search))

\* order_by("-id")
Reversed(seq) == [i \in 1..Len(seq) |-> seq[Len(seq) + 1 - i]]

\* limit = offset + limit; limit = limit if limit else None; [offset:limit]
Slice(seq, offset, limit) ==
    LET stop == IF offset + limit = 0 THEN Len(seq) ELSE min(offset + limit, Len(seq))
    IN SubSeq(seq, offset + 1, stop)

\* .values("id", "instance_name", "db_name", "sqllog", "effect_row", ...)
Values(log) ==
    [id |-> log.id, instance_name |-> log.instance_name, db_name |-> log.db_name,
     sqllog |-> log.sqllog, effect_row |-> log.effect_row,
     user_display |-> log.user_display, favorite |-> log.favorite, alias |-> log.alias]

\* _querylog(request); one listing is answered
querylog ==
    /\ listing = NoListing
    /\ \E user \in Principals, limit \in PageLimits, offset \in PageOffsets, star \in BOOLEAN,
          query_log_id \in {NoneInt} \cup (1..MaxLogs), search \in SearchTexts :
          LET params == ListingParams(limit, offset, star, query_log_id, search)
              sql_log == Filtered(query_log, user, params)
              page == Slice(Reversed(sql_log), offset, limit)
          IN listing' = [user |-> user, params |-> params, total |-> Len(sql_log),
                         rows |-> [i \in 1..Len(page) |-> Values(page[i])]]
    /\ UNCHANGED <<req, schedules, now, query_log, kills>>

InitLog ==
    /\ req = [r \in {1} |-> InitReq]
    /\ schedules = {}
    /\ now = 0
    /\ query_log \in StoredLogs
    /\ kills = << >>
    /\ listing = NoListing

NextLog == querylog

SpecLog == InitLog /\ [][NextLog]_vars

(* ---- the favorite toggle ---- *)
\* request.POST.get("alias")
FavoriteAliases == {<< >>, <<"p", "i", "n">>}

\* faulty variant: save() without update_fields writes every field of the new instance
FavoriteSaveAllFields(log, star, alias) ==
    [log EXCEPT !.favorite = star, !.alias = alias, !.username = NoneStr,
                !.user_display = << >>, !.sqllog = << >>, !.effect_row = 0]

\* QueryLog(id=query_log_id, favorite=star, alias=alias).save(
\*     update_fields=["favorite", "alias"])
FavoriteSave(log, star, alias) == [log EXCEPT !.favorite = star, !.alias = alias]

\* favorite(request); a save for an id that is not stored updates no record
favorite ==
    /\ \E query_log_id \in {NoneInt} \cup (1..(Len(query_log) + 1)), star \in BOOLEAN,
          alias \in FavoriteAliases :
          query_log' =
              IF query_log_id \in 1..Len(query_log)
              THEN [query_log EXCEPT
                      ![query_log_id] = FavoriteSave(query_log[query_log_id], star, alias)]
              ELSE query_log
    /\ UNCHANGED <<req, schedules, now, kills, listing>>

\* a request about to arm its guard while at most one earlier audit record is stored
InitFav ==
    /\ req = [r \in {1} |-> ArmingReq(r)]
    /\ schedules = {}
    /\ now = 0
    /\ query_log \in {logs \in StoredLogs : Len(logs) <= 1}
    /\ kills = << >>
    /\ listing = NoListing

NextFav ==
    \/ \E r \in Reqs : AddKillConnSchedule(r)
    \/ \E r \in Reqs : EngineQuery(r)
    \/ \E r \in Reqs : DelSchedule(r)
    \/ \E r \in Reqs : Masking(r)
    \/ \E r \in Reqs : SaveQueryLog(r)
    \/ \E r \in Reqs : Respond(r)
    \/ kill_query_conn
    \/ Tick
    \/ favorite

SpecFav == InitFav /\ [][NextFav]_vars

(* ---- what the claims speak about ---- *)
Done(r) == req[r].pc = "done"

Started(r) == req[r].pc # "idle"

CountCalls(q, op) == Cardinality({i \in 1..Len(q.calls) : q.calls[i].op = op})

HasCalled(q, op) == \E i \in 1..Len(q.calls) : q.calls[i].op = op

LogsOf(r) == {i \in 1..Len(query_log) : query_log[i].request = r}

PendingJobsOf(r) == {j \in schedules : j.thread_id = r}

\* the masking stage ran and failed (reported error or raised)
MaskingFailure(q) == q.cfg.data_masking /\ q.masked \in {"error", "raise"}

\* the limit the request asked for
RequestedLimit(q) == IF q.raw_limit = NoneInt THEN 0 ELSE q.raw_limit

\* C1: a request whose connection has a session id arms the kill job exactly once and
\* disarms it exactly once on every exit path of the execution step, so that no job
\* armed by it is pending when it returns
C1_GuardArmedAndDisarmedOnce ==
    \A r \in Reqs :
        (Done(r) /\ req[r].thread_id # NoneInt) =>
            /\ CountCalls(req[r], "add_kill_conn_schedule") = 1
            /\ CountCalls(req[r], "del_schedule") = 1
            /\ PendingJobsOf(r) = {}

\* C2: a statement whose checked text starts with EXPLAIN (any case) is executed with
\* limit_num = 0 on both paths
C2_ExplainExecutesWithLimitZero ==
    \A r \in Reqs :
        (req[r].executed # "none" /\ re_match_explain(lower(req[r].check.filtered_sql))) =>
            req[r].exec_limit = 0

\* C3: masking enabled, strict mode on, masking fails: the request returns
\* status = error and a payload without rows
C3_StrictMaskingFailureReturnsError ==
    \A r \in Reqs :
        (Done(r) /\ MaskingFailure(req[r]) /\ req[r].cfg.query_check) =>
            /\ req[r].response = "json"
            /\ req[r].result.status # 0
            /\ "rows" \notin DOMAIN req[r].result.data

\* C4: masking enabled, strict mode off, masking fails: the request returns
\* status = success and the rows of the payload are the unmasked rows of the execution
C4_LenientMaskingFailureReturnsUnmaskedRows ==
    \A r \in Reqs :
        (Done(r) /\ MaskingFailure(req[r]) /\ ~req[r].cfg.query_check) =>
            /\ req[r].response # "raised"
            /\ req[r].result.status = 0
            /\ "rows" \in DOMAIN req[r].result.data
            /\ req[r].result.data.rows =
                  RawRows(RowsReturned(req[r].exec_limit, req[r].query_result.affected_rows))

C4_Witness ==
    \E r \in Reqs :
        /\ Done(r) /\ MaskingFailure(req[r]) /\ ~req[r].cfg.query_check
        /\ req[r].kind = "query"
        /\ req[r].masked = "raise"
        /\ Len(req[r].result.data.rows) >= 2

\* C5: an audit record written for a request that returns a failure status stores a
\* row count of 0
C5_FailedRequestLogsZeroRows ==
    \A i \in 1..Len(query_log) :
        LET q == req[query_log[i].request] IN
        (q.pc \in {"respond", "done"} /\ q.result.status # 0) => query_log[i].effect_row = 0

\* C6: every failure is returned as a status and a message: when the execution returns
\* an error, both entry points return a payload with non-zero status and the error
\* message instead of raising
C6_ExecutionErrorIsReturnedStructured ==
    \A r \in Reqs :
        (Done(r) /\ req[r].executed = "error") =>
            /\ req[r].response = "json"
            /\ req[r].result.status # 0
            /\ req[r].result.msg = "exec_err"

\* the statement or the principal is refused by policy
RejectedByCheck(q) ==
    /\ q.check.outcome = "ok"
    /\ q.check.bad_query \/ (q.check.has_star /\ q.cfg.disable_star)

RejectedByPrivilege(q) == q.priv.outcome = "ok" /\ q.priv.status # 0

\* C7: a request rejected by policy returns the rejection's status and message, and
\* opens no connection, arms no kill job, executes nothing and writes no audit record
C7_PolicyRejectionStopsThePipeline ==
    \A r \in Reqs :
        LET q == req[r] IN
        (RejectedByCheck(q) \/ RejectedByPrivilege(q)) =>
            /\ Done(r)
            /\ q.response = "json"
            /\ RejectedByCheck(q) => (q.result.status = 1 /\ q.result.msg = "check_msg")
            /\ RejectedByPrivilege(q) =>
                  (q.result.status = q.priv.status /\ q.result.msg = "priv_msg")
            /\ ~HasCalled(q, "get_connection")
            /\ ~HasCalled(q, "add_kill_conn_schedule")
            /\ ~HasCalled(q, "filter_sql")
            /\ ~HasCalled(q, "query")
            /\ PendingJobsOf(r) = {}
            /\ LogsOf(r) = {}

C7_Witness ==
    \E r \in Reqs :
        /\ Done(r)
        /\ req[r].check.has_star /\ req[r].cfg.disable_star /\ ~req[r].check.bad_query
        /\ req[r].result.status = 1

\* C8 as stated: the logged row count is 0 when the execution errored, else the
\* affected-row count when the requested limit was 0, else the minimum of the
\* requested limit and the affected-row count
C8_LoggedRowsFromRequestedLimit ==
    \A i \in 1..Len(query_log) :
        LET q == req[query_log[i].request] IN
        query_log[i].effect_row =
            IF q.executed = "error" THEN 0
            ELSE IF RequestedLimit(q) = 0 THEN q.query_result.affected_rows
            ELSE min(RequestedLimit(q), q.query_result.affected_rows)

\* C8 amended: the logged row count is 0 when the execution errored, else the
\* affected-row count when the limit passed to the execution was 0, else the minimum
\* of the limit passed to the execution and the affected-row count
C8_LoggedRowsFromExecutedLimit ==
    \A i \in 1..Len(query_log) :
        LET q == req[query_log[i].request] IN
        query_log[i].effect_row =
            IF q.executed = "error" THEN 0
            ELSE IF q.exec_limit = 0 THEN q.query_result.affected_rows
            ELSE min(q.exec_limit, q.query_result.affected_rows)

\* an EXPLAIN asked with a limit, executed with limit 0, logs all the affected rows
C8_Witness ==
    \E i \in 1..Len(query_log) :
        LET q == req[query_log[i].request] IN
        /\ q.executed = "ok"
        /\ RequestedLimit(q) = 1
        /\ q.exec_limit = 0
        /\ q.query_result.affected_rows = MaxRows
        /\ query_log[i].effect_row = MaxRows

\* C9: a request in which a required field (SQL text, database name, instance name,
\* row limit) is missing is rejected without any call to the adapter or the privilege
\* evaluator and without an audit record
C9_MissingFieldIsRejectedEarly ==
    \A r \in Reqs :
        LET q == req[r] IN
        (/\ Started(r)
         /\ \/ q.sql_content = NoneSql
            \/ q.db_name = NoneStr
            \/ q.instance_name = NoneStr
            \/ q.raw_limit = NoneInt) =>
            /\ q.pc \in {"resolve", "done"}
            /\ Done(r) => (q.response = "json" /\ q.result.status # 0)
            /\ q.calls = << >>
            /\ LogsOf(r) = {}

\* C10: a request naming an instance that is not visible to the principal ends in a
\* rejection, reaches neither the privilege evaluator nor the adapter, and writes no
\* audit record
C10_InvisibleInstanceIsRejected ==
    \A r \in Reqs :
        LET q == req[r] IN
        (Started(r) /\ q.instance_name \notin VisibleInstances) =>
            /\ q.pc \in {"resolve", "done"}
            /\ Done(r) =>
                  (q.response = "json" /\ q.result.status = 1 /\ q.result.msg = "no_instance")
            /\ q.calls = << >>
            /\ LogsOf(r) = {}

C10_Witness ==
    \E r \in Reqs :
        /\ Done(r)
        /\ req[r].instance_name = "hidden"
        /\ req[r].sql_content # NoneSql
        /\ req[r].result.status = 1

KillsOf(r) == {i \in 1..Len(kills) : kills[i].thread_id = r}

\* the checked statement is an EXPLAIN
CheckedIsExplain(q) == re_match_explain(lower(q.check.filtered_sql))

\* C11: query_masking is invoked only for a request whose execution result has no
\* error and only when data_masking is enabled; a result carrying an error never
\* reaches the masking stage
C11_MaskingOnlyAfterSuccessWhenEnabled ==
    \A r \in Reqs :
        /\ HasCalled(req[r], "query_masking") =>
              (req[r].executed = "ok" /\ req[r].cfg.data_masking)
        /\ req[r].executed = "error" =>
              (~HasCalled(req[r], "query_masking") /\ req[r].masked = "none")

C11_Witness ==
    \E r \in Reqs :
        /\ Done(r)
        /\ HasCalled(req[r], "query_masking")
        /\ req[r].masked = "ok"
        /\ Len(req[r].result.data.rows) >= 1

StepRank(op) ==
    CASE op = "get_engine" -> 1
      [] op = "query_check" -> 2
      [] op = "query_priv_check" -> 3
      [] op = "filter_sql" -> 4
      [] op = "replace_limit" -> 5
      [] op = "get_connection" -> 6
      [] op = "add_kill_conn_schedule" -> 7
      [] op = "query" -> 8
      [] op = "del_schedule" -> 9
      [] op = "query_masking" -> 10

\* C16: within one request the steps occur in the fixed order query_check, privilege
\* evaluation, filter_sql, connection, arming, execution, disarming, masking, audit
\* write, response, and none is skipped on the success path; rewriting never precedes
\* a successful privilege evaluation and execution never precedes rewriting
C16_StepsInFixedOrder ==
    \A r \in Reqs :
        LET q == req[r] IN
        /\ \A i, j \in 1..Len(q.calls) :
              i < j => StepRank(q.calls[i].op) < StepRank(q.calls[j].op)
        /\ HasCalled(q, "query_priv_check") => q.check.outcome = "ok"
        /\ HasCalled(q, "filter_sql") =>
              (HasCalled(q, "query_priv_check") /\ q.priv.outcome = "ok" /\ q.priv.status = 0)
        /\ HasCalled(q, "get_connection") => HasCalled(q, "filter_sql")
        /\ HasCalled(q, "add_kill_conn_schedule") => HasCalled(q, "get_connection")
        /\ HasCalled(q, "query") =>
              /\ HasCalled(q, "get_connection")
              /\ q.thread_id # NoneInt => HasCalled(q, "add_kill_conn_schedule")
        /\ HasCalled(q, "query_masking") =>
              /\ HasCalled(q, "query")
              /\ q.thread_id # NoneInt => HasCalled(q, "del_schedule")
        /\ LogsOf(r) # {} =>
              /\ HasCalled(q, "query")
              /\ q.pc \in {"respond", "done"}
              /\ q.thread_id # NoneInt => HasCalled(q, "del_schedule")
        /\ (q.response # NoneStr /\ q.result.status = 0) => LogsOf(r) # {}

C16_Witness ==
    \E r \in Reqs :
        LET q == req[r] IN
        /\ Done(r) /\ q.kind = "query" /\ q.result.status = 0
        /\ q.thread_id # NoneInt /\ q.masked = "ok"
        /\ [i \in 1..Len(q.calls) |-> q.calls[i].op] =
              <<"get_engine", "query_check", "query_priv_check", "filter_sql",
                "get_connection", "add_kill_conn_schedule", "query", "del_schedule",
                "query_masking">>
        /\ LogsOf(r) # {}

\* the registration of the guard of a request
GuardState(r) ==
    IF ~HasCalled(req[r], "add_kill_conn_schedule") THEN "idle"
    ELSE IF PendingJobsOf(r) # {} THEN "armed"
    ELSE IF KillsOf(r) # {} THEN "fired"
    ELSE "cancelled"

GuardMoves == {<<"idle", "armed">>, <<"armed", "fired">>, <<"armed", "cancelled">>}

\* C17: for each query attempt the guard moves idle -> armed -> {fired | cancelled},
\* is registered at most once, and at most one kill of its session is ever made,
\* under any interleaving of the scheduler with the execute and disarm steps
C17_AtMostOneKillPerAttempt ==
    [][\A r \in Reqs :
          /\ Cardinality(KillsOf(r))' <= 1
          /\ CountCalls(req[r], "add_kill_conn_schedule")' <= 1
          /\ Cardinality(PendingJobsOf(r))' <= 1
          /\ ~(PendingJobsOf(r)' # {} /\ KillsOf(r)' # {})
          /\ GuardState(r)' # GuardState(r) => <<GuardState(r), GuardState(r)'>> \in GuardMoves
      ]_vars

C17_Witness ==
    \E r \in Reqs :
        /\ Done(r)
        /\ GuardState(r) = "fired"
        /\ Cardinality(KillsOf(r)) = 1
        /\ HasCalled(req[r], "del_schedule")

\* the kill job of r ran between the return of the execution and del_schedule
KilledAfterExecution(r) == \E i \in KillsOf(r) : kills[i].req_pc = "del_schedule"

\* the status a request returns when nothing kills its session
NaturalStatus(q) ==
    IF q.executed = "error" THEN 1
    ELSE IF MaskingFailure(q) /\ q.cfg.query_check THEN 1
    ELSE 0

C19_OnlyOwnJobIsCancelled ==
    [][\A x \in Reqs :
          (PendingJobsOf(x) # {} /\ PendingJobsOf(x)' = {}) =>
              \/ KillsOf(x)' # KillsOf(x)
              \/ CountCalls(req[x], "del_schedule")' > CountCalls(req[x], "del_schedule")
      ]_vars

\* the stored records a principal may see
VisibleTo(user) ==
    {i \in 1..Len(query_log) :
        user.is_superuser \/ user.has_audit_perm \/ query_log[i].username = user.username}

\* the visible records that meet the criteria of a listing
SelectedFor(user, params) ==
    {i \in VisibleTo(user) :
        /\ params.star => query_log[i].favorite
        /\ params.query_log_id # NoneInt => i = params.query_log_id
        /\ \E text \in {query_log[i].sqllog, query_log[i].user_display, query_log[i].alias} :
              \E k \in 0..Len(text) :
                 /\ k + Len(params.search) <= Len(text)
                 /\ \A n \in 1..Len(params.search) :
                       lower(text)[k + n] = lower(params.search)[n]}

Listed == listing.user.username # NoneStr

\* C15: the listing returns every record that meets the criteria to a superuser or a
\* holder of the audit permission and only the records of the own username to any
\* other principal; total counts exactly the records visible to the principal, and the
\* rows are the requested page of them, newest first
C15_ListingShowsOnlyVisibleRecords ==
    Listed =>
        LET user == listing.user
            params == listing.params
            selected == SelectedFor(user, params)
            ids == [i \in 1..Len(listing.rows) |-> listing.rows[i].id]
        IN
        /\ listing.total = Cardinality(selected)
        /\ \A i \in 1..Len(ids) : ids[i] \in selected
        /\ \A i, j \in 1..Len(ids) : i < j => ids[i] > ids[j]
        /\ ~(user.is_superuser \/ user.has_audit_perm) =>
              \A i \in 1..Len(ids) : query_log[ids[i]].username = user.username
        /\ (params.limit = 0 /\ params.offset = 0) => Len(ids) = Cardinality(selected)
        /\ \A i \in selected :
              LET newer == Cardinality({k \in selected : k > i}) IN
              (\E n \in 1..Len(ids) : ids[n] = i) <=>
                  (newer >= params.offset /\
                     (params.offset + params.limit = 0 \/ newer < params.offset + params.limit))

C15_Witness ==
    /\ Listed
    /\ ~listing.user.is_superuser /\ ~listing.user.has_audit_perm
    /\ listing.user.username = "alice"
    /\ listing.params = ListingParams(1, 0, FALSE, NoneInt, << >>)
    /\ Len(query_log) = 2
    /\ query_log[1].username = "alice" /\ query_log[2].username = "bob"
    /\ listing.total = 1
    /\ Len(listing.rows) = 1 /\ listing.rows[1].id = 1

\* C21: when the connection opened for a request has no session id, the guard is
\* neither armed nor disarmed for that request: no kill job is scheduled, no schedule
\* is deleted and no kill is made
C21_NoSessionIdNoGuard ==
    \A r \in Reqs :
        (HasCalled(req[r], "get_connection") /\ req[r].raised # "get_connection"
           /\ req[r].thread_id = NoneInt) =>
            /\ ~HasCalled(req[r], "add_kill_conn_schedule")
            /\ ~HasCalled(req[r], "del_schedule")
            /\ req[r].schedule_name = NoneInt
            /\ \A j \in schedules : j.thread_id # NoneInt /\ j.thread_id # r
            /\ \A i \in 1..Len(kills) : kills[i].thread_id # NoneInt /\ kills[i].thread_id # r

C21_Witness ==
    \E r \in Reqs :
        /\ Done(r)
        /\ HasCalled(req[r], "get_connection")
        /\ req[r].thread_id = NoneInt
        /\ req[r].executed = "ok"
        /\ req[r].result.status = 0
        /\ LogsOf(r) # {}
        /\ schedules = {}

\* the fields of an audit record that the favorite toggle does not own
Written(log) ==
    [id |-> log.id, request |-> log.request, username |-> log.username,
     user_display |-> log.user_display, db_name |-> log.db_name,
     instance_name |-> log.instance_name, sqllog |-> log.sqllog,
     effect_row |-> log.effect_row, priv_check |-> log.priv_check,
     hit_rule |-> log.hit_rule, masking |-> log.masking, query_type |-> log.query_type]

\* C22: audit records are append-only: no step removes a record or changes a field of
\* a stored record other than favorite and alias; a step changes favorite or alias of
\* at most one record, and a step of the pipeline or of the scheduler changes no
\* stored record at all
C22_AuditRecordsAreAppendOnly ==
    [][/\ Len(query_log') >= Len(query_log)
       /\ \A i \in 1..Len(query_log) : Written(query_log'[i]) = Written(query_log[i])
       /\ \A i, j \in 1..Len(query_log) :
             (query_log'[i] # query_log[i] /\ query_log'[j] # query_log[j]) => i = j
       /\ (req' # req \/ schedules' # schedules \/ kills' # kills \/ now' # now) =>
             \A i \in 1..Len(query_log) : query_log'[i] = query_log[i]
       /\ Len(query_log') > Len(query_log) =>
             /\ Len(query_log') = Len(query_log) + 1
             /\ \A i \in 1..Len(query_log) : query_log'[i] = query_log[i]
      ]_vars

C22_Witness ==
    \E r \in Reqs : \E i \in LogsOf(r) : \E k \in 1..Len(query_log) :
        /\ Done(r)
        /\ query_log[i].favorite /\ query_log[i].alias = <<"p", "i", "n">>
        /\ query_log[i].sqllog = req[r].sql_content
        /\ query_log[i].username = UserOf(r)
        /\ k # i
        /\ query_log[k].username = "bob" /\ ~query_log[k].favorite

====
